---- MODULE Spec2Model ----
(***************************************************************************)
(* HeaderCell of react-data-grid (src/src/HeaderCell.tsx): the sort        *)
(* controller (onSort, onClick, onKeyDown), the derived ARIA values        *)
(* (sortIndex, sortColumn, sortDirection, priority, ariaSort) and the      *)
(* resize controller (onPointerDown, onPointerMove, onLostPointerCapture). *)
(*                                                                         *)
(* An optional JavaScript value is a sequence of length 0 or 1:            *)
(* undefined is <<>>, a defined value v is <<v>>.  Array indices are the   *)
(* 0-based indices of the source; the element at index i of a TLA+         *)
(* sequence s is s[i + 1].                                                 *)
(***************************************************************************)
EXTENDS Integers, Sequences, FiniteSets, TLC

\* ----------------------------------------------------------------- bounds
NumCols == 3
NumHeaderRows == 1

\* The length of the sort cycle of one column: first, opposite, unsorted.
MaxStreak == 3

\* Pointers, the range of clientX, the width of the resize handle, and the
\* minWidth and maxWidth of the resized column.
NumPointers == 2
MaxX == 7
HandleSize == 2
MinWidth == 2
MaxWidth == 4

\* ------------------------------------------------------------ value sets
Undefined == <<>>
Some(v) == <<v>>

ColumnKeys == 1..NumCols
Directions == {"ASC", "DESC"}
RowIdxs == 1..NumHeaderRows
Keys == {" ", "Enter", "Tab"}

\* SortColumn of ./types: { columnKey, direction }
SortColumn == [columnKey : ColumnKeys, direction : Directions]

\* The part of CalculatedColumn the header cell reads.  idx is the display
\* position of the column, here key - 1.  sortDescendingFirst is optional.
CalculatedColumn ==
    { [key |-> k, idx |-> k - 1, sortable |-> s, sortDescendingFirst |-> d,
       minWidth |-> MinWidth, maxWidth |-> MaxWidth] :
        k \in ColumnKeys, s \in BOOLEAN, d \in {Undefined, Some(TRUE), Some(FALSE)} }

\* Pointer events: the pointers, their types and the buttons of a pointer-down.
PointerIds == 1..NumPointers
PointerTypeOf(pointerId) ==
    IF pointerId = 1 THEN "mouse" ELSE IF pointerId % 2 = 0 THEN "touch" ELSE "pen"
Buttons == {0, 1, 2}
\* The buttons a pointer-down can carry: a touch contact is button 1, a pen
\* its tip or its barrel button, a mouse any one button (or none, synthetic).
ButtonsOf(pointerType) ==
    IF pointerType = "touch" THEN {1}
    ELSE IF pointerType = "pen" THEN {1, 2}
    ELSE Buttons
ClientXs == 0..MaxX

RECURSIVE SeqsUpTo(_, _)
SeqsUpTo(S, n) ==
    IF n = 0 THEN { <<>> }
    ELSE LET shorter == SeqsUpTo(S, n - 1)
         IN  shorter \cup { Append(s, x) : s \in { t \in shorter : Len(t) = n - 1 }, x \in S }

NoDuplicateKeys(list) ==
    \A i, j \in DOMAIN list : list[i].columnKey = list[j].columnKey => i = j

\* The sort lists a parent can hold: at most one entry per columnKey.
SortLists == { l \in SeqsUpTo(SortColumn, NumCols) : NoDuplicateKeys(l) }

\* ------------------------------------------------------------- variables
VARIABLES
    sortColumns,       \* the parent's sort list: Undefined or Some(list)
    props,             \* Some(props of the cell handling the event), Undefined between events
    event,             \* Some(the event being handled), Undefined between events
    calls,             \* the callbacks the handler invoked, in order
    defaultPrevented,  \* whether the handler called event.preventDefault()
    streak,            \* successive plain activations of one column, from []: [column, list]
    direction,         \* the direction prop: "ltr" or "rtl"
    rect,              \* headerCell.getBoundingClientRect(): [left, right]
    pressed,           \* the pointers that are down
    captured,          \* the pointers captured by the resize handle
    pointermove,       \* the handle's 'pointermove' listeners, in the order added
    lostpointercapture, \* the handle's 'lostpointercapture' listeners, in the order added
    widths,            \* the width computed by each onPointerMove the event ran, in order
    down,              \* Some([clientX, left, right]) at the pointer-down of the only drag
    given              \* the array handed to the cell as sortColumns, as the handler left it

sortVars == <<sortColumns, streak>>
resizeVars == <<direction, rect, pressed, captured, pointermove, lostpointercapture, down>>
vars == <<sortColumns, props, event, calls, defaultPrevented, streak,
          direction, rect, pressed, captured, pointermove, lostpointercapture,
          widths, down, given>>

\* --------------------------------------------------- derived render values
Truthy(opt) == opt # Undefined /\ opt[1] = TRUE

\* Array.prototype.findIndex for (sort) => sort.columnKey === key
findIndex(list, key) ==
    IF \E i \in DOMAIN list : list[i].columnKey = key
    THEN (CHOOSE i \in DOMAIN list :
            /\ list[i].columnKey = key
            /\ \A j \in DOMAIN list : list[j].columnKey = key => i <= j) - 1
    ELSE -1

sortIndex(p) ==
    IF p.sortColumns = Undefined THEN Undefined
    ELSE Some(findIndex(p.sortColumns[1], p.column.key))

sortColumn(p) ==
    LET index == sortIndex(p)
    IN  IF index # Undefined /\ index[1] > -1
        THEN Some(p.sortColumns[1][index[1] + 1])
        ELSE Undefined

sortDirection(p) ==
    LET sorted == sortColumn(p)
    IN  IF sorted = Undefined THEN Undefined ELSE Some(sorted[1].direction)

\* Mutant: the rank counted from 0.
priority_ZeroBased(p) ==
    IF sortColumn(p) # Undefined /\ Len(p.sortColumns[1]) > 1
    THEN Some(sortIndex(p)[1])
    ELSE Undefined

priority(p) ==
    IF sortColumn(p) # Undefined /\ Len(p.sortColumns[1]) > 1
    THEN Some(sortIndex(p)[1] + 1)
    ELSE Undefined

\* Mutant: aria-sort exposed whenever the column is sorted.
ariaSort_IgnoresPriority(p) ==
    LET dir == sortDirection(p)
    IN  IF dir # Undefined
        THEN Some(IF dir[1] = "ASC" THEN "ascending" ELSE "descending")
        ELSE Undefined

\* sortDirection && !priority: a direction is a non-empty string, and
\* !priority holds of undefined and of 0.
ariaSort(p) ==
    LET dir == sortDirection(p)
        rank == priority(p)
    IN  IF dir # Undefined /\ (rank = Undefined \/ rank[1] = 0)
        THEN Some(IF dir[1] = "ASC" THEN "ascending" ELSE "descending")
        ELSE Undefined

\* ----------------------------------------------------------------- calls
NoSize == [unit |-> "", value |-> 0]
SelectCell(idx, rowIdx) ==
    [fn |-> "selectCell", idx |-> idx, rowIdx |-> rowIdx, list |-> <<>>, size |-> NoSize]
SortColumnsChange(list) ==
    [fn |-> "onSortColumnsChange", idx |-> 0, rowIdx |-> 0, list |-> list, size |-> NoSize]
\* onColumnResize(column, width) with a number, or with 'max-content'
ColumnResize(column, size) ==
    [fn |-> "onColumnResize", idx |-> column.idx, rowIdx |-> 0, list |-> <<>>, size |-> size]
Px(width) == [unit |-> "px", value |-> width]
\* onFocus(event) of the roving tab index
RovingFocus ==
    [fn |-> "onFocus", idx |-> 0, rowIdx |-> 0, list |-> <<>>, size |-> NoSize]
MaxContent == [unit |-> "max-content", value |-> 0]

\* Mutant: splice(index + 1, 1).
Splice_OffByOne(list, index) ==
    [i \in 1..(Len(list) - 1) |-> IF i <= index + 1 /\ i < Len(list) THEN list[i] ELSE list[i + 1]]

\* Array.prototype.splice(index, 1) on a copy
Splice(list, index) ==
    [i \in 1..(Len(list) - 1) |-> IF i <= index THEN list[i] ELSE list[i + 1]]

\* sortDescendingFirst ? 'DESC' : 'ASC'
firstDirection(column) ==
    IF Truthy(column.sortDescendingFirst) THEN "DESC" ELSE "ASC"

\* Mutant: the new entry appended whether or not Ctrl/Cmd is held.
notSortedNext_AlwaysAppends(p, ctrlClick) ==
    LET nextSort == [columnKey |-> p.column.key, direction |-> firstDirection(p.column)]
    IN  IF p.sortColumns # Undefined
        THEN Append(p.sortColumns[1], nextSort)
        ELSE <<nextSort>>

\* Mutant: the new entry put first.
notSortedNext_Prepends(p, ctrlClick) ==
    LET nextSort == [columnKey |-> p.column.key, direction |-> firstDirection(p.column)]
    IN  IF p.sortColumns # Undefined /\ ctrlClick
        THEN <<nextSort>> \o p.sortColumns[1]
        ELSE <<nextSort>>

\* The list reported for a column that is not currently sorted.
notSortedNext(p, ctrlClick) ==
    LET nextSort == [columnKey |-> p.column.key, direction |-> firstDirection(p.column)]
    IN  IF p.sortColumns # Undefined /\ ctrlClick
        THEN Append(p.sortColumns[1], nextSort)
        ELSE <<nextSort>>

\* Mutant: the direction always flipped, the column never unsorted.
nextSortColumn_NeverRemoves(p) ==
    LET dir == sortDirection(p)[1]
    IN  Some([columnKey |-> p.column.key,
              direction |-> IF dir = "ASC" THEN "DESC" ELSE "ASC"])

\* nextSortColumn of a sorted column: the flipped entry, or undefined.
nextSortColumn(p) ==
    LET dir == sortDirection(p)[1]
        sdf == p.column.sortDescendingFirst
    IN  IF \/ (sdf = Some(TRUE) /\ dir = "DESC")
           \/ (sdf # Some(TRUE) /\ dir = "ASC")
        THEN Some([columnKey |-> p.column.key,
                   direction |-> IF dir = "ASC" THEN "DESC" ELSE "ASC"])
        ELSE Undefined

\* Mutant: nextSortColumns is the given array itself, not a copy of it.
ctrlClickArrays_InPlace(p) ==
    LET next == IF nextSortColumn(p) # Undefined
                THEN [p.sortColumns[1] EXCEPT
                        ![sortIndex(p)[1] + 1] = nextSortColumn(p)[1]]
                ELSE Splice(p.sortColumns[1], sortIndex(p)[1])
    IN  [sortColumns |-> next, nextSortColumns |-> next]

\* The two arrays of a Ctrl/Cmd activation of a sorted column: the given
\* sortColumns and nextSortColumns, a new array with the same entries, to
\* which the index assignment and the splice are applied.
ctrlClickArrays(p) ==
    LET copied == [sortColumns |-> p.sortColumns[1],
                   nextSortColumns |-> p.sortColumns[1]]
    IN  IF nextSortColumn(p) # Undefined
        THEN [copied EXCEPT
                !.nextSortColumns[sortIndex(p)[1] + 1] = nextSortColumn(p)[1]]
        ELSE [copied EXCEPT !.nextSortColumns = Splice(@, sortIndex(p)[1])]

\* Mutant: the flipped entry is appended, the old one left in place.
ctrlClickNext_AppendsFlipped(p) ==
    IF nextSortColumn(p) # Undefined
    THEN Append(p.sortColumns[1], nextSortColumn(p)[1])
    ELSE Splice(p.sortColumns[1], sortIndex(p)[1])

\* The list reported for a sorted column with Ctrl/Cmd held.
ctrlClickNext(p) == ctrlClickArrays(p).nextSortColumns

\* Mutant: a plain activation that keeps the other sorted columns.
plainClickNext_KeepsOthers(p) ==
    IF nextSortColumn(p) # Undefined
    THEN [p.sortColumns[1] EXCEPT ![sortIndex(p)[1] + 1] = nextSortColumn(p)[1]]
    ELSE Splice(p.sortColumns[1], sortIndex(p)[1])

\* The list reported for a sorted column without Ctrl/Cmd.
plainClickNext(p) ==
    IF nextSortColumn(p) # Undefined THEN <<nextSortColumn(p)[1]>> ELSE <<>>

\* Mutant: the next list is computed and reported without a callback.
onSort_NoNullCheck(p, ctrlClick) ==
    IF sortColumn(p) = Undefined
    THEN << SortColumnsChange(notSortedNext(p, ctrlClick)) >>
    ELSE IF ctrlClick
    THEN << SortColumnsChange(ctrlClickNext(p)) >>
    ELSE << SortColumnsChange(plainClickNext(p)) >>

onSort(p, ctrlClick) ==
    IF ~p.onSortColumnsChange THEN <<>>
    ELSE IF sortColumn(p) = Undefined
    THEN << SortColumnsChange(notSortedNext(p, ctrlClick)) >>
    ELSE IF ctrlClick
    THEN << SortColumnsChange(ctrlClickNext(p)) >>
    ELSE << SortColumnsChange(plainClickNext(p)) >>

\* The given sortColumns array after the handler, which calls onSort when
\* sorts: only the index assignment and the splice of a Ctrl/Cmd activation
\* of a sorted column write to an array; the other lists are array literals.
sortColumnsAfter(p, sorts, ctrlClick) ==
    IF /\ sorts
       /\ p.onSortColumnsChange
       /\ sortColumn(p) # Undefined
       /\ ctrlClick
    THEN Some(ctrlClickArrays(p).sortColumns)
    ELSE p.sortColumns

\* Mutant: the cell selected only when the click does not sort.
onClick_SelectsUnlessSorting(p, e) ==
    IF p.column.sortable THEN onSort(p, e.ctrlKey \/ e.metaKey)
    ELSE <<SelectCell(p.column.idx, p.rowIdx)>>

onClick(p, e) ==
    <<SelectCell(p.column.idx, p.rowIdx)>>
        \o (IF p.column.sortable THEN onSort(p, e.ctrlKey \/ e.metaKey) ELSE <<>>)

\* Mutant: Cmd not taken as the multi gesture.
onKeyDown_CtrlOnly(p, e) ==
    IF p.column.sortable /\ (e.key = " " \/ e.key = "Enter")
    THEN [calls |-> onSort(p, e.ctrlKey), defaultPrevented |-> TRUE]
    ELSE [calls |-> <<>>, defaultPrevented |-> FALSE]

\* onKeyDown is bound only when column.sortable (the onKeyDown attribute).
onKeyDown(p, e) ==
    IF p.column.sortable /\ (e.key = " " \/ e.key = "Enter")
    THEN [calls |-> onSort(p, e.ctrlKey \/ e.metaKey), defaultPrevented |-> TRUE]
    ELSE [calls |-> <<>>, defaultPrevented |-> FALSE]

\* ------------------------------------------------------------ the parent
Reported(cs) == { i \in DOMAIN cs : cs[i].fn = "onSortColumnsChange" }

\* The parent applies every list reported through onSortColumnsChange.
Applied(current, cs) ==
    IF Reported(cs) = {} THEN current
    ELSE Some(cs[CHOOSE i \in Reported(cs) : \A j \in Reported(cs) : j <= i].list)

\* An activation without Ctrl/Cmd that reported a list.
PlainActivation(e, cs) ==
    /\ ~(e.ctrlKey \/ e.metaKey)
    /\ Reported(cs) # {}

\* The lists reported by successive plain activations of the same column,
\* the first of them on an empty sort list.
NextStreak(p, e, cs) ==
    LET entry == [column |-> p.column, list |-> Applied(p.sortColumns, cs)[1]]
    IN  IF ~PlainActivation(e, cs) THEN <<>>
        ELSE IF streak # <<>> /\ Len(streak) < MaxStreak /\ streak[1].column = p.column
        THEN Append(streak, entry)
        ELSE IF p.sortColumns = Some(<<>>) THEN <<entry>>
        ELSE <<>>

Props(column, rowIdx, hasCallback) ==
    [column |-> column, rowIdx |-> rowIdx,
     sortColumns |-> sortColumns, onSortColumnsChange |-> hasCallback]

Idle == event = Undefined

\* --------------------------------------------------------------- actions
Init ==
    /\ sortColumns \in {Undefined} \cup { Some(l) : l \in SortLists }
    /\ props = Undefined
    /\ event = Undefined
    /\ calls = <<>>
    /\ defaultPrevented = FALSE
    /\ streak = <<>>
    /\ direction = "ltr"
    /\ rect = [left |-> 1, right |-> 1 + MinWidth]
    /\ pressed = {}
    /\ captured = {}
    /\ pointermove = <<>>
    /\ lostpointercapture = <<>>
    /\ widths = <<>>
    /\ down = Undefined
    /\ given = Undefined

\* A click on the cell body: onClick, and the parent applying what it reports.
Click ==
    /\ Idle
    /\ \E column \in CalculatedColumn, rowIdx \in RowIdxs, hasCallback \in BOOLEAN,
          ctrlKey \in BOOLEAN, metaKey \in BOOLEAN :
        LET p == Props(column, rowIdx, hasCallback)
            e == [type |-> "click", key |-> "", ctrlKey |-> ctrlKey, metaKey |-> metaKey]
            cs == onClick(p, e)
        IN  /\ props' = Some(p)
            /\ event' = Some(e)
            /\ calls' = cs
            /\ defaultPrevented' = FALSE
            /\ sortColumns' = Applied(sortColumns, cs)
            /\ streak' = NextStreak(p, e, cs)
            /\ given' = sortColumnsAfter(p, column.sortable, ctrlKey \/ metaKey)
            /\ UNCHANGED <<resizeVars, widths>>

\* A key pressed with the cell focused: onKeyDown, when it is bound.
KeyDown ==
    /\ Idle
    /\ \E column \in CalculatedColumn, rowIdx \in RowIdxs, hasCallback \in BOOLEAN,
          key \in Keys, ctrlKey \in BOOLEAN, metaKey \in BOOLEAN :
        LET p == Props(column, rowIdx, hasCallback)
            e == [type |-> "keydown", key |-> key, ctrlKey |-> ctrlKey, metaKey |-> metaKey]
            r == onKeyDown(p, e)
        IN  /\ props' = Some(p)
            /\ event' = Some(e)
            /\ calls' = r.calls
            /\ defaultPrevented' = r.defaultPrevented
            /\ sortColumns' = Applied(sortColumns, r.calls)
            /\ streak' = NextStreak(p, e, r.calls)
            /\ given' = sortColumnsAfter(p, column.sortable /\ key \in {" ", "Enter"},
                                         ctrlKey \/ metaKey)
            /\ UNCHANGED <<resizeVars, widths>>

\* What useRovingTabIndex of ./hooks returns to the cell: a tabIndex for the
\* container and, when it supplies one, a focus handler.
RovingTabIndex == [tabIndex : {0, -1}, onFocus : BOOLEAN]

FocusProps(rowIdx, shouldFocusGrid, roving) ==
    [rowIdx |-> rowIdx, shouldFocusGrid |-> shouldFocusGrid,
     tabIndex |-> roving.tabIndex, onFocus |-> roving.onFocus,
     sortColumns |-> sortColumns]

\* Mutant: the first cell is selected before the roving handler runs.
handleFocus_SelectsFirst(p) ==
    (IF p.shouldFocusGrid THEN << SelectCell(0, p.rowIdx) >> ELSE <<>>)
        \o (IF p.onFocus THEN << RovingFocus >> ELSE <<>>)

\* handleFocus: onFocus?.(event), then the first cell of the row is selected
\* when the grid is to take the focus.
handleFocus(p) ==
    (IF p.onFocus THEN << RovingFocus >> ELSE <<>>)
        \o (IF p.shouldFocusGrid THEN << SelectCell(0, p.rowIdx) >> ELSE <<>>)

\* tabIndex of the cell's container.
tabIndex(p) == IF p.shouldFocusGrid THEN 0 ELSE p.tabIndex

\* The cell receives the focus: handleFocus.
Focus ==
    /\ Idle
    /\ \E rowIdx \in RowIdxs, shouldFocusGrid \in BOOLEAN, roving \in RovingTabIndex :
        LET p == FocusProps(rowIdx, shouldFocusGrid, roving)
            e == [type |-> "focus", key |-> "", ctrlKey |-> FALSE, metaKey |-> FALSE]
        IN  /\ props' = Some(p)
            /\ event' = Some(e)
            /\ calls' = handleFocus(p)
            /\ defaultPrevented' = FALSE
            /\ streak' = <<>>
            /\ given' = p.sortColumns
            /\ UNCHANGED <<sortColumns, resizeVars, widths>>

\* The dispatch is over: the header row is rendered again from the parent's
\* state before the next event is handled.
Rerender ==
    /\ ~Idle
    /\ props' = Undefined
    /\ event' = Undefined
    /\ calls' = <<>>
    /\ defaultPrevented' = FALSE
    /\ widths' = <<>>
    /\ given' = Undefined
    /\ UNCHANGED <<sortVars, resizeVars>>

Next == Click \/ KeyDown \/ Focus \/ Rerender

Spec == Init /\ [][Next]_vars

\* ------------------------------------------------------ resize controller
isRtl == direction = "rtl"

\* The header cell whose resize handle is modelled; the handle is rendered
\* only for a resizable column.
ResizedColumn ==
    [key |-> 1, idx |-> 0, sortable |-> TRUE, sortDescendingFirst |-> Undefined,
     minWidth |-> MinWidth, maxWidth |-> MaxWidth]

Max(a, b) == IF a >= b THEN a ELSE b
Min(a, b) == IF a <= b THEN a ELSE b

\* clampColumnWidth of ./utils: the width held within [minWidth, maxWidth].
clampColumnWidth(width, column) == Min(Max(width, column.minWidth), column.maxWidth)

\* The fixed edge of the cell: its left edge in ltr, its right edge in rtl.
\* The grid keeps it at one of two scroll positions.
AnchorPositions(rtl) == IF rtl THEN {MaxX - 2, MaxX - 1} ELSE {1, 2}

\* The parent applies a reported width: the cell grows at its trailing edge.
Resized(r, width, rtl) ==
    IF rtl THEN [r EXCEPT !.left = r.right - width]
    ELSE [r EXCEPT !.right = r.left + width]

\* The x positions over the resize handle: the trailing HandleSize units.
HandleXs(r, rtl) ==
    IF rtl THEN r.left..(r.left + HandleSize - 1)
    ELSE (r.right - HandleSize + 1)..r.right

\* Mutant: the offset is measured from the fixed edge of the cell.
Session_OffsetFromFixedEdge(e, r, rtl) ==
    [pointerId |-> e.pointerId, pointerType |-> e.pointerType, buttons |-> e.buttons,
     offset |-> IF rtl THEN r.right - e.clientX ELSE e.clientX - r.left]

\* The closures of one pointer-down: its onPointerMove and its
\* onLostPointerCapture share pointerId, offset and the event that made them.
Session(e, r, rtl) ==
    [pointerId |-> e.pointerId, pointerType |-> e.pointerType, buttons |-> e.buttons,
     offset |-> IF rtl THEN e.clientX - r.left ELSE r.right - e.clientX]

\* Mutant: only a mouse with no button pressed is ignored.
Ignored_OnlyNoButton(e) == e.pointerType = "mouse" /\ e.buttons = 0

\* The early return of onPointerDown.
Ignored(e) == e.pointerType = "mouse" /\ e.buttons # 1

\* const width of onPointerMove, with the cell measured as r.
candidateWidth(session, x, r, rtl) ==
    IF rtl THEN r.right + session.offset - x ELSE x + session.offset - r.left

\* Mutant: a width that is not positive is reported as the minimum width.
onPointerMove_ClampsUp(session, x, r, rtl) ==
    << ColumnResize(ResizedColumn,
                    Px(clampColumnWidth(candidateWidth(session, x, r, rtl),
                                        ResizedColumn))) >>

\* Mutant: the width is reported as computed, not clamped.
onPointerMove_Raw(session, x, r, rtl) ==
    LET width == candidateWidth(session, x, r, rtl)
    IN  IF width > 0 THEN << ColumnResize(ResizedColumn, Px(width)) >> ELSE <<>>

\* One onPointerMove listener at clientX x with the cell measured as r.
onPointerMove(session, x, r, rtl) ==
    LET width == candidateWidth(session, x, r, rtl)
    IN  IF width > 0
        THEN << ColumnResize(ResizedColumn, Px(clampColumnWidth(width, ResizedColumn))) >>
        ELSE <<>>

\* A 'pointermove' event at the handle runs every listener attached to it, in
\* the order added; the parent applies each reported width as it is reported.
RECURSIVE DispatchPointerMove(_, _, _, _)
DispatchPointerMove(listeners, x, r, rtl) ==
    IF listeners = <<>> THEN [rect |-> r, calls |-> <<>>, widths |-> <<>>]
    ELSE LET cs == onPointerMove(Head(listeners), x, r, rtl)
             measured == IF cs = <<>> THEN r ELSE Resized(r, cs[1].size.value, rtl)
             rest == DispatchPointerMove(Tail(listeners), x, measured, rtl)
         IN  [rect |-> rest.rect, calls |-> cs \o rest.calls,
              widths |-> <<candidateWidth(Head(listeners), x, r, rtl)>> \o rest.widths]

\* removeEventListener: the first listener that is this closure, if any.
RemoveListener(listeners, session) ==
    IF \E i \in DOMAIN listeners : listeners[i] = session
    THEN LET at == CHOOSE i \in DOMAIN listeners :
                     /\ listeners[i] = session
                     /\ \A j \in DOMAIN listeners : listeners[j] = session => i <= j
         IN  [j \in 1..(Len(listeners) - 1) |->
                IF j < at THEN listeners[j] ELSE listeners[j + 1]]
    ELSE listeners

\* Mutant: onLostPointerCapture removes the move listener only.
RECURSIVE DispatchLostPointerCapture_KeepsItself(_, _, _)
DispatchLostPointerCapture_KeepsItself(toRun, moves, losts) ==
    IF toRun = <<>> THEN [pointermove |-> moves, lostpointercapture |-> losts]
    ELSE DispatchLostPointerCapture_KeepsItself(Tail(toRun),
                                                RemoveListener(moves, Head(toRun)),
                                                losts)

\* A 'lostpointercapture' event at the handle runs every onLostPointerCapture
\* attached when it is dispatched; each removes its own two listeners.
RECURSIVE DispatchLostPointerCapture(_, _, _)
DispatchLostPointerCapture(toRun, moves, losts) ==
    IF toRun = <<>> THEN [pointermove |-> moves, lostpointercapture |-> losts]
    ELSE DispatchLostPointerCapture(Tail(toRun),
                                    RemoveListener(moves, Head(toRun)),
                                    RemoveListener(losts, Head(toRun)))

ResizeProps == Props(ResizedColumn, 1, FALSE)

ResizeInit ==
    /\ sortColumns = Undefined
    /\ props = Undefined
    /\ event = Undefined
    /\ calls = <<>>
    /\ defaultPrevented = FALSE
    /\ streak = <<>>
    /\ direction \in {"ltr", "rtl"}
    /\ \E anchor \in AnchorPositions(isRtl), width \in MinWidth..MaxWidth :
          rect = IF isRtl THEN [left |-> anchor - width, right |-> anchor]
                 ELSE [left |-> anchor, right |-> anchor + width]
    /\ pressed = {}
    /\ captured = {}
    /\ pointermove = <<>>
    /\ lostpointercapture = <<>>
    /\ widths = <<>>
    /\ down = Undefined
    /\ given = Undefined

\* A pointer goes down on the resize handle: onPointerDown.
PointerDown ==
    /\ Idle
    /\ \E pointerId \in PointerIds \ pressed, clientX \in HandleXs(rect, isRtl) :
       \E buttons \in ButtonsOf(PointerTypeOf(pointerId)) :
        LET e == [type |-> "pointerdown", pointerId |-> pointerId,
                  pointerType |-> PointerTypeOf(pointerId), buttons |-> buttons,
                  clientX |-> clientX]
        IN  /\ props' = Some(ResizeProps)
            /\ event' = Some(e)
            /\ calls' = <<>>
            /\ defaultPrevented' = FALSE
            /\ pressed' = pressed \cup {pointerId}
            /\ IF Ignored(e)
               THEN UNCHANGED <<captured, pointermove, lostpointercapture, down>>
               ELSE /\ captured' = captured \cup {pointerId}
                    /\ pointermove' = Append(pointermove, Session(e, rect, isRtl))
                    /\ lostpointercapture' =
                         Append(lostpointercapture, Session(e, rect, isRtl))
                    /\ down' = IF pointermove = <<>>
                               THEN Some([clientX |-> clientX, left |-> rect.left,
                                          right |-> rect.right])
                               ELSE Undefined
            /\ UNCHANGED <<sortVars, direction, rect, widths, given>>

\* A pointer moves and the event is dispatched at the handle: the pointer is
\* captured by it, or it is a mouse or pen over it.
PointerMove ==
    /\ Idle
    /\ \E pointerId \in PointerIds, clientX \in ClientXs :
        /\ \/ pointerId \in captured
           \/ /\ PointerTypeOf(pointerId) # "touch"
              /\ clientX \in HandleXs(rect, isRtl)
        /\ LET e == [type |-> "pointermove", pointerId |-> pointerId,
                     pointerType |-> PointerTypeOf(pointerId), buttons |-> 0,
                     clientX |-> clientX]
               r == DispatchPointerMove(pointermove, clientX, rect, isRtl)
           IN  /\ props' = Some(ResizeProps)
               /\ event' = Some(e)
               /\ calls' = r.calls
               /\ defaultPrevented' = (pointermove # <<>>)
               /\ rect' = r.rect
               /\ widths' = r.widths
               /\ UNCHANGED <<sortVars, direction, pressed, captured,
                              pointermove, lostpointercapture, down, given>>

\* A captured pointer is released or cancelled: the handle loses its capture.
LostPointerCapture ==
    /\ Idle
    /\ \E pointerId \in captured :
        LET e == [type |-> "lostpointercapture", pointerId |-> pointerId,
                  pointerType |-> PointerTypeOf(pointerId), buttons |-> 0, clientX |-> 0]
            r == DispatchLostPointerCapture(lostpointercapture, pointermove,
                                            lostpointercapture)
        IN  /\ props' = Some(ResizeProps)
            /\ event' = Some(e)
            /\ calls' = <<>>
            /\ defaultPrevented' = FALSE
            /\ pressed' = pressed \ {pointerId}
            /\ captured' = captured \ {pointerId}
            /\ pointermove' = r.pointermove
            /\ lostpointercapture' = r.lostpointercapture
            /\ down' = IF r.pointermove = <<>> THEN Undefined ELSE down
            /\ UNCHANGED <<sortVars, direction, rect, widths, given>>

\* A pointer that was never captured goes up: no handler of the cell runs.
PointerUp ==
    /\ Idle
    /\ \E pointerId \in pressed \ captured :
        /\ pressed' = pressed \ {pointerId}
        /\ UNCHANGED <<sortVars, props, event, calls, defaultPrevented,
                       direction, rect, captured, pointermove, lostpointercapture,
                       widths, down, given>>

\* stopPropagation of ./utils: the event stops at the element handling it.
stopPropagation(e) == [e EXCEPT !.propagationStopped = TRUE]

\* Mutant: the handle has no click handler.
handleOnClick_Unbound(e) == e

\* onClick of the resize handle.
handleOnClick(e) == stopPropagation(e)

\* A click on the handle bubbles to the cell's onClick unless it was stopped.
BubbledClick(p, e) == IF e.propagationStopped THEN <<>> ELSE onClick(p, e)

\* A click on the resize handle of the cell, sortable or not.
HandleClick ==
    /\ Idle
    /\ \E sortable \in BOOLEAN, hasCallback \in BOOLEAN, ctrlKey \in BOOLEAN :
        LET p == Props([ResizedColumn EXCEPT !.sortable = sortable], 1, hasCallback)
            e == handleOnClick([type |-> "click", key |-> "", ctrlKey |-> ctrlKey,
                                metaKey |-> FALSE, propagationStopped |-> FALSE])
            cs == BubbledClick(p, e)
        IN  /\ props' = Some(p)
            /\ event' = Some(e)
            /\ calls' = cs
            /\ defaultPrevented' = FALSE
            /\ sortColumns' = Applied(sortColumns, cs)
            /\ streak' = NextStreak(p, e, cs)
            /\ given' = IF e.propagationStopped THEN p.sortColumns
                        ELSE sortColumnsAfter(p, sortable, ctrlKey)
            /\ UNCHANGED <<resizeVars, widths>>

\* A double click on the handle: onDoubleClick; the parent measures the
\* content and applies its width.
DoubleClick ==
    /\ Idle
    /\ \E measured \in MinWidth..MaxWidth :
        /\ props' = Some(ResizeProps)
        /\ event' = Some([type |-> "dblclick", pointerId |-> 1, pointerType |-> "mouse",
                          buttons |-> 0, clientX |-> 0])
        /\ calls' = << ColumnResize(ResizedColumn, MaxContent) >>
        /\ defaultPrevented' = FALSE
        /\ rect' = Resized(rect, measured, isRtl)
        /\ UNCHANGED <<sortVars, direction, pressed, captured,
                       pointermove, lostpointercapture, widths, down, given>>

\* The grid scrolls: the cell moves, its width kept.
Scroll ==
    /\ Idle
    /\ \E anchor \in AnchorPositions(isRtl) :
        /\ anchor # (IF isRtl THEN rect.right ELSE rect.left)
        /\ rect' = IF isRtl
                   THEN [left |-> anchor - (rect.right - rect.left), right |-> anchor]
                   ELSE [left |-> anchor, right |-> anchor + (rect.right - rect.left)]
        /\ UNCHANGED <<sortVars, props, event, calls, defaultPrevented,
                       direction, pressed, captured, pointermove, lostpointercapture,
                       widths, down, given>>

ResizeNext ==
    PointerDown \/ PointerMove \/ LostPointerCapture \/ PointerUp
        \/ HandleClick \/ DoubleClick \/ Scroll \/ Rerender

ResizeSpec == ResizeInit /\ [][ResizeNext]_vars

\* ================================================================ claims
\* The handler of the event being handled, read from the dispatch record.
P == props[1]
E == event[1]
Multi == E.ctrlKey \/ E.metaKey

\* A sort activation: a click on the body, or Space/Enter, of a sortable cell.
SortActivation ==
    /\ ~Idle
    /\ \/ E.type = "click"
       \/ E.type = "keydown" /\ E.key \in {" ", "Enter"}
    /\ P.column.sortable

ReportedLists == [i \in 1..Cardinality(Reported(calls)) |->
                    SelectSeq(calls, LAMBDA c : c.fn = "onSortColumnsChange")[i].list]
SelectCellCalls == SelectSeq(calls, LAMBDA c : c.fn = "selectCell")

InList(list, key) == \E i \in DOMAIN list : list[i].columnKey = key
NotSorted == P.sortColumns = Undefined \/ ~InList(P.sortColumns[1], P.column.key)
Sorted == ~NotSorted
PositionOf(list, key) == CHOOSE i \in DOMAIN list : list[i].columnKey = key

First(column) == IF column.sortDescendingFirst = Some(TRUE) THEN "DESC" ELSE "ASC"
Opposite(d) == IF d = "ASC" THEN "DESC" ELSE "ASC"
Entry(key, d) == [columnKey |-> key, direction |-> d]

\* C1: a plain activation (no Ctrl/Cmd) of a sortable column that is not in
\* the sort list (absent, empty or holding other columns) reports exactly the
\* one-element list [{column.key, DESC if sortDescendingFirst else ASC}].
C1_PlainActivationOfUnsortedReportsSingleton ==
    (SortActivation /\ ~Multi /\ P.onSortColumnsChange /\ NotSorted)
        => ReportedLists = << << Entry(P.column.key, First(P.column)) >> >>

C1_Witness ==
    /\ SortActivation /\ ~Multi /\ P.onSortColumnsChange /\ NotSorted
    /\ P.sortColumns # Undefined /\ Len(P.sortColumns[1]) = 2
    /\ P.column.sortDescendingFirst = Some(TRUE)
    /\ sortColumns = Some(<< Entry(P.column.key, "DESC") >>)

\* C2: with the parent applying every reported list, successive plain
\* activations of one column from an empty list report [first], [opposite],
\* [] in turn, and after the third the list is empty again.
CycleList(column, i) ==
    IF i % 3 = 1 THEN << Entry(column.key, First(column)) >>
    ELSE IF i % 3 = 2 THEN << Entry(column.key, Opposite(First(column))) >>
    ELSE <<>>

C2_ThreeStateCycle ==
    /\ \A i \in DOMAIN streak : streak[i].list = CycleList(streak[1].column, i)
    /\ streak # <<>> => sortColumns = Some(streak[Len(streak)].list)
    /\ Len(streak) = 3 => sortColumns = Some(<<>>)

C2_Witness ==
    /\ Len(streak) = 3
    /\ streak[1].column.sortDescendingFirst = Some(TRUE)
    /\ streak[1].list = << Entry(streak[1].column.key, "DESC") >>
    /\ streak[2].list = << Entry(streak[1].column.key, "ASC") >>
    /\ streak[3].list = <<>>
    /\ sortColumns = Some(<<>>)

\* C3: a multi activation of a column not in an existing sort list reports the
\* list with one entry appended: every prior entry keeps its position, key and
\* direction, and the new last entry has the column's first direction.
C3_MultiActivationOfUnsortedAppends ==
    (SortActivation /\ Multi /\ P.onSortColumnsChange /\ NotSorted
        /\ P.sortColumns # Undefined)
        => /\ Len(ReportedLists) = 1
           /\ Len(ReportedLists[1]) = Len(P.sortColumns[1]) + 1
           /\ \A i \in DOMAIN P.sortColumns[1] : ReportedLists[1][i] = P.sortColumns[1][i]
           /\ ReportedLists[1][Len(ReportedLists[1])] = Entry(P.column.key, First(P.column))

C3_Witness ==
    /\ SortActivation /\ Multi /\ P.onSortColumnsChange /\ NotSorted
    /\ P.sortColumns # Undefined /\ Len(P.sortColumns[1]) = 2
    /\ Len(ReportedLists) = 1 /\ Len(ReportedLists[1]) = 3

\* C4: a multi activation of a column at position i of the sort list replaces
\* entry i by the same key with the opposite direction when the column is at
\* its first direction, and removes entry i when it is at its second; the
\* other entries are reported unchanged, in the same order.
Without(list, i) == [j \in 1..(Len(list) - 1) |-> IF j < i THEN list[j] ELSE list[j + 1]]

C4_MultiActivationOfSortedFlipsOrRemoves ==
    (SortActivation /\ Multi /\ P.onSortColumnsChange /\ Sorted)
        => LET before == P.sortColumns[1]
               i == PositionOf(before, P.column.key)
           IN  /\ Len(ReportedLists) = 1
               /\ IF before[i].direction = First(P.column)
                  THEN /\ Len(ReportedLists[1]) = Len(before)
                       /\ ReportedLists[1][i] =
                            Entry(P.column.key, Opposite(before[i].direction))
                       /\ \A j \in DOMAIN before \ {i} : ReportedLists[1][j] = before[j]
                  ELSE ReportedLists[1] = Without(before, i)

C4_Witness ==
    /\ SortActivation /\ Multi /\ P.onSortColumnsChange /\ Sorted
    /\ Len(P.sortColumns[1]) = 3
    /\ PositionOf(P.sortColumns[1], P.column.key) = 2
    /\ P.sortColumns[1][2].direction # First(P.column)
    /\ ReportedLists = << << P.sortColumns[1][1], P.sortColumns[1][3] >> >>

\* C5: every plain activation reports a list of length at most one, whatever
\* the current list; when non-empty its only entry is for the activated column.
C5_PlainActivationReportsAtMostOne ==
    (SortActivation /\ ~Multi /\ P.onSortColumnsChange)
        => /\ Len(ReportedLists) = 1
           /\ Len(ReportedLists[1]) <= 1
           /\ \A i \in DOMAIN ReportedLists[1] : ReportedLists[1][i].columnKey = P.column.key

C5_Witness ==
    /\ SortActivation /\ ~Multi /\ P.onSortColumnsChange /\ Sorted
    /\ Len(P.sortColumns[1]) = 3
    /\ Len(ReportedLists) = 1 /\ Len(ReportedLists[1]) = 1

\* The props of the header cell of a column, rendered from the parent's state
\* (between events every cell is rendered from the parent's current list).
Cell(column) == Props(column, 1, TRUE)

\* C6: a header cell exposes aria-sort iff the sort list holds exactly one
\* column and it is the cell's own; then 'ascending' for ASC, 'descending'
\* for DESC.
C6_AriaSortIffSoleSortKey ==
    Idle => \A column \in CalculatedColumn :
        LET sole == /\ sortColumns # Undefined
                    /\ Len(sortColumns[1]) = 1
                    /\ sortColumns[1][1].columnKey = column.key
            aria == ariaSort(Cell(column))
        IN  /\ aria # Undefined <=> sole
            /\ sole => aria = Some(IF sortColumns[1][1].direction = "ASC"
                                    THEN "ascending" ELSE "descending")

C6_Witness ==
    /\ Idle /\ Len(streak) = 2
    /\ sortColumns # Undefined /\ Len(sortColumns[1]) = 1
    /\ \E column \in CalculatedColumn : ariaSort(Cell(column)) = Some("descending")

\* C7 as stated: the priority of a header cell is present iff two or more
\* columns are sorted.
C7_PriorityIffTwoOrMoreSorted ==
    Idle => \A column \in CalculatedColumn :
        priority(Cell(column)) # Undefined
            <=> (sortColumns # Undefined /\ Len(sortColumns[1]) >= 2)

\* C7 amended: the priority of a header cell is present iff the cell's column
\* is in the sort list and two or more columns are sorted; when present it is
\* the 1-based position of the cell's column in the sort list.
C7_PriorityIffSortedAmongTwoOrMore ==
    Idle => \A column \in CalculatedColumn :
        LET ranked == /\ sortColumns # Undefined
                      /\ Len(sortColumns[1]) >= 2
                      /\ InList(sortColumns[1], column.key)
            rank == priority(Cell(column))
        IN  /\ rank # Undefined <=> ranked
            /\ ranked => rank = Some(PositionOf(sortColumns[1], column.key))

C7_Witness ==
    /\ Idle
    /\ sortColumns # Undefined /\ Len(sortColumns[1]) = 3
    /\ \E column \in CalculatedColumn : priority(Cell(column)) = Some(3)

\* C8: every click on the cell body invokes selectCell exactly once, with
\* {idx: column.idx, rowIdx}, sortable or not, callback registered or not,
\* whatever list is reported.
C8_ClickSelectsCellOnce ==
    (~Idle /\ E.type = "click")
        => SelectCellCalls = << SelectCell(P.column.idx, P.rowIdx) >>

C8_Witness ==
    /\ ~Idle /\ E.type = "click"
    /\ P.column.sortable /\ P.onSortColumnsChange /\ P.column.idx > 0
    /\ Len(calls) = 2 /\ Len(SelectCellCalls) = 1

\* C9: Space or Enter on a sortable cell reports the same list as a click
\* on that cell with the same Ctrl/Cmd state and prevents the default action;
\* any other key, and any key on a cell that is not sortable, reports nothing.
ClickReports(p, e) ==
    LET cs == onClick(p, [e EXCEPT !.type = "click", !.key = ""])
    IN  [i \in 1..Cardinality(Reported(cs)) |->
            SelectSeq(cs, LAMBDA c : c.fn = "onSortColumnsChange")[i].list]

C9_KeyActivationSameAsClick ==
    (~Idle /\ E.type = "keydown")
        => IF P.column.sortable /\ E.key \in {" ", "Enter"}
           THEN /\ ReportedLists = ClickReports(P, E)
                /\ sortColumns = Applied(P.sortColumns, onClick(P, E))
                /\ defaultPrevented
           ELSE /\ ReportedLists = <<>>
                /\ sortColumns = P.sortColumns

C9_Witness ==
    /\ ~Idle /\ E.type = "keydown" /\ E.key = "Enter"
    /\ E.metaKey /\ ~E.ctrlKey
    /\ P.column.sortable /\ P.onSortColumnsChange
    /\ Sorted /\ Len(P.sortColumns[1]) = 2
    /\ Len(ReportedLists) = 1 /\ Len(ReportedLists[1]) = 2
    /\ defaultPrevented

\* C10: a pointer-down on the resize handle with pointerType 'mouse' and
\* buttons other than 1 acquires no capture and attaches no listener; no
\* listener attached to the handle was made by such a pointer-down, and a
\* pointer-move reports a width only through a listener that is attached.
IgnoredPointerDown(e) ==
    e # Undefined /\ e[1].type = "pointerdown"
        /\ e[1].pointerType = "mouse" /\ e[1].buttons # 1

C10_SecondaryMouseButtonStartsNoDrag ==
    /\ [][(Idle /\ IgnoredPointerDown(event'))
            => /\ captured' = captured
               /\ pointermove' = pointermove
               /\ lostpointercapture' = lostpointercapture]_vars
    /\ [](\A i \in DOMAIN pointermove :
            ~(pointermove[i].pointerType = "mouse" /\ pointermove[i].buttons # 1))
    /\ [](\A i \in DOMAIN lostpointercapture :
            ~(lostpointercapture[i].pointerType = "mouse"
                /\ lostpointercapture[i].buttons # 1))
    /\ []((~Idle /\ E.type = "pointermove") => Len(calls) <= Len(pointermove))

\* The mouse went down with a secondary button while no drag was active; it
\* then moves over the handle and nothing is reported.
C10_Witness ==
    /\ ~Idle /\ E.type = "pointermove" /\ E.pointerType = "mouse"
    /\ E.pointerId \in pressed \ captured
    /\ pointermove = <<>>
    /\ calls = <<>>

\* ---------------------------------------------------------------------------
\* The resize handle: widths reported during a drag

\* The state after a 'pointermove' event was dispatched at the handle.
PointerMoved == ~Idle /\ E.type = "pointermove"
\* The state after a 'pointerdown' event on the handle.
PointerWentDown == ~Idle /\ E.type = "pointerdown"

\* The candidate widths of the dispatch that are strictly positive, in order.
PositiveWidths == SelectSeq(widths, LAMBDA w : w > 0)

\* C11: a pointer-move of a drag whose candidate width is zero or negative
\* emits no resize notification: the notifications of a pointer-move are
\* exactly those of the listeners whose candidate width is strictly positive.
C11_NonPositiveWidthIsDropped ==
    PointerMoved =>
        /\ Len(widths) = Len(pointermove)
        /\ Len(calls) = Len(PositiveWidths)
        /\ (\A i \in DOMAIN widths : widths[i] <= 0) => calls = <<>>

C11_Witness ==
    /\ PointerMoved
    /\ Len(pointermove) = 1
    /\ widths[1] < 0
    /\ calls = <<>>

\* C12: every numeric width passed to onColumnResize is the candidate width
\* brought into [column.minWidth, column.maxWidth]: the minimum when the
\* candidate is below it, the maximum when above, the candidate otherwise.
C12_ReportedWidthIsClamped ==
    \A i \in DOMAIN calls :
        (calls[i].fn = "onColumnResize" /\ calls[i].size.unit = "px") =>
            LET width == PositiveWidths[i]
                reported == calls[i].size.value
                column == ResizedColumn
            IN  /\ PointerMoved
                /\ calls[i].idx = column.idx
                /\ column.minWidth <= reported /\ reported <= column.maxWidth
                /\ reported = IF width < column.minWidth THEN column.minWidth
                              ELSE IF width > column.maxWidth THEN column.maxWidth
                              ELSE width

C12_Witness ==
    /\ PointerMoved
    /\ Len(calls) = 1
    /\ PositiveWidths[1] > MaxWidth
    /\ calls[1].size = Px(MaxWidth)

\* C13: the candidate width of a move at x1 is x1 + offset - left (ltr) or
\* right + offset - x1 (rtl), the cell measured at the move, with offset =
\* right - x0 (ltr) or x0 - left (rtl), the cell measured at the pointer-down
\* at x0; when the fixed edge has not moved since, it is the width at the
\* pointer-down plus x1 - x0 (ltr) or x0 - x1 (rtl).
C13_CandidateWidthFollowsPointer ==
    /\ (PointerWentDown /\ ~Ignored(E)) =>
            pointermove[Len(pointermove)].offset =
                IF isRtl THEN E.clientX - rect.left ELSE rect.right - E.clientX
    /\ PointerMoved =>
            \A i \in DOMAIN widths :
                widths[i] = IF isRtl THEN rect.right + pointermove[i].offset - E.clientX
                            ELSE E.clientX + pointermove[i].offset - rect.left
    /\ (PointerMoved /\ down # Undefined) =>
            LET x0 == down[1].clientX
                x1 == E.clientX
                widthAtDown == down[1].right - down[1].left
            IN  /\ widths = << IF isRtl THEN rect.right + (x0 - down[1].left) - x1
                               ELSE x1 + (down[1].right - x0) - rect.left >>
                /\ (~isRtl /\ rect.left = down[1].left) =>
                        widths[1] = widthAtDown + (x1 - x0)
                /\ (isRtl /\ rect.right = down[1].right) =>
                        widths[1] = widthAtDown + (x0 - x1)

C13_Witness ==
    /\ PointerMoved
    /\ down # Undefined
    /\ ~isRtl
    /\ rect.left = down[1].left
    /\ down[1].clientX < down[1].right
    /\ E.clientX > down[1].clientX
    /\ widths = << (down[1].right - down[1].left) + (E.clientX - down[1].clientX) >>

\* ---------------------------------------------------------------------------
\* The resize handle: the life of a drag

\* The pointer has a drag in progress: its move listener is attached.
Dragging(pointerId, listeners) ==
    \E i \in DOMAIN listeners : listeners[i].pointerId = pointerId

AcceptedPointerDown(e) ==
    e # Undefined /\ e[1].type = "pointerdown"
        /\ ~(e[1].pointerType = "mouse" /\ e[1].buttons # 1)

CaptureLost(e) == e # Undefined /\ e[1].type = "lostpointercapture"

\* C14: an accepted pointer-down captures the pointer and attaches one move
\* listener and one capture-loss listener; listeners are removed by a
\* capture-loss event and by nothing else, both of a drag together and once;
\* after it no listener of the drag remains, and no pointer-move reports a
\* width until an accepted pointer-down has attached a listener again.
C14_DragStartsAtPointerDownEndsAtCaptureLoss ==
    /\ [][(Idle /\ AcceptedPointerDown(event'))
            => /\ captured' = captured \cup {event'[1].pointerId}
               /\ ~Dragging(event'[1].pointerId, pointermove)
               /\ \E session \in {pointermove'[Len(pointermove')]} :
                     /\ session.pointerId = event'[1].pointerId
                     /\ pointermove' = Append(pointermove, session)
                     /\ lostpointercapture' = Append(lostpointercapture, session)]_vars
    /\ [][(pointermove' # pointermove \/ lostpointercapture' # lostpointercapture)
            => Idle /\ (AcceptedPointerDown(event') \/ CaptureLost(event'))]_vars
    /\ [][(Idle /\ CaptureLost(event'))
            => /\ Dragging(event'[1].pointerId, pointermove)
                    => ~Dragging(event'[1].pointerId, pointermove')
               /\ pointermove' = <<>>
               /\ lostpointercapture' = <<>>
               /\ calls' = <<>>]_vars
    /\ [](pointermove = lostpointercapture)
    /\ [](\A i, j \in DOMAIN pointermove :
            pointermove[i].pointerId = pointermove[j].pointerId => i = j)
    /\ []((PointerMoved /\ calls # <<>>) => pointermove # <<>>)

\* The capture of a dragging pointer was lost: its listeners are gone.
C14_Witness ==
    /\ CaptureLost(event)
    /\ E.pointerType = "mouse"
    /\ E.pointerId \notin captured
    /\ pointermove = <<>>
    /\ lostpointercapture = <<>>
    /\ rect.right - rect.left = MaxWidth

\* C15: with two drags active on the handle, a move of one pointer runs the
\* listener of that pointer only, so reports at most one width, and the
\* capture loss of one pointer leaves the listeners of every other captured
\* pointer attached.
C15_ConcurrentDragsAreIndependent ==
    /\ (PointerMoved /\ Len(pointermove) >= 2
            /\ Dragging(E.pointerId, pointermove)) =>
            /\ Len(calls) <= 1
            /\ Len(widths) = 1
    /\ CaptureLost(event) =>
            \A pointerId \in captured : Dragging(pointerId, pointermove)

\* ---------------------------------------------------------------------------
\* The resize handle: clicks

\* The state after a click on the resize handle.
HandleClicked == ~Idle /\ E.type = "click"

\* C16: a click on the resize handle calls neither selectCell nor
\* onSortColumnsChange and leaves the sort list as it was, whatever drags are
\* active and whether or not the column is sortable.
C16_HandleClickReachesNoCellHandler ==
    HandleClicked =>
        /\ \A i \in DOMAIN calls :
              calls[i].fn \notin {"selectCell", "onSortColumnsChange"}
        /\ sortColumns = P.sortColumns
        /\ streak = <<>>

\* The handle of a sortable column with a callback was clicked during a drag.
C16_Witness ==
    /\ HandleClicked
    /\ P.column.sortable /\ P.onSortColumnsChange
    /\ pointermove # <<>>
    /\ calls = <<>>
    /\ sortColumns = Undefined

\* ---------------------------------------------------------------------------
\* Focus

\* The state after the cell received the focus.
Focused == ~Idle /\ E.type = "focus"

\* The container's tabIndex: 0 when shouldFocusGrid, else the primitive's.
ContainerTabIndexForced ==
    Focused => /\ P.shouldFocusGrid => tabIndex(P) = 0
               /\ ~P.shouldFocusGrid => tabIndex(P) = P.tabIndex

\* C17 as stated: on every focus event the roving handler is invoked first,
\* then selectCell({idx: 0, rowIdx}) iff shouldFocusGrid; the container's
\* tabIndex is 0 when shouldFocusGrid and the primitive's otherwise.
C17_RovingHandlerAlwaysInvokedFirst ==
    /\ Focused =>
          /\ calls # <<>> /\ calls[1] = RovingFocus
          /\ P.shouldFocusGrid => calls = << RovingFocus, SelectCell(0, P.rowIdx) >>
          /\ ~P.shouldFocusGrid => calls = << RovingFocus >>
    /\ ContainerTabIndexForced

\* C17, amended: on a focus event the roving handler, when the primitive
\* supplies one, is invoked once and before anything else; then
\* selectCell({idx: 0, rowIdx}) is invoked iff shouldFocusGrid, and nothing
\* more; the container's tabIndex is 0 when shouldFocusGrid and the
\* primitive's otherwise.
C17_RovingHandlerInvokedFirstWhenSupplied ==
    /\ Focused =>
          /\ P.onFocus => calls # <<>> /\ calls[1] = RovingFocus
          /\ Cardinality({i \in DOMAIN calls : calls[i] = RovingFocus})
                = IF P.onFocus THEN 1 ELSE 0
          /\ SelectCellCalls
                = IF P.shouldFocusGrid THEN << SelectCell(0, P.rowIdx) >> ELSE <<>>
          /\ Len(calls) = (IF P.onFocus THEN 1 ELSE 0)
                            + (IF P.shouldFocusGrid THEN 1 ELSE 0)
          /\ sortColumns = P.sortColumns
    /\ ContainerTabIndexForced

\* Focus with a roving handler and shouldFocusGrid, the primitive's tabIndex -1.
C17_Witness ==
    /\ Focused
    /\ P.onFocus /\ P.shouldFocusGrid /\ P.tabIndex = -1
    /\ calls = << RovingFocus, SelectCell(0, P.rowIdx) >>
    /\ tabIndex(P) = 0

\* ---------------------------------------------------------------------------
\* Sort activations: no callback, distinct keys, the given list

\* C18: with no onSortColumnsChange, a sort activation of a sortable column,
\* by click or by Space/Enter, with or without Ctrl/Cmd, reports no list and
\* changes no list: a click selects the cell and nothing more, a key calls
\* nothing.
C18_NoCallbackNoSort ==
    (SortActivation /\ ~P.onSortColumnsChange) =>
        /\ ReportedLists = <<>>
        /\ sortColumns = P.sortColumns
        /\ given = P.sortColumns
        /\ calls = IF E.type = "click"
                   THEN << SelectCell(P.column.idx, P.rowIdx) >>
                   ELSE <<>>

C18_Witness ==
    /\ SortActivation /\ ~P.onSortColumnsChange
    /\ E.type = "keydown" /\ Multi
    /\ Sorted /\ Len(P.sortColumns[1]) >= 2
    /\ calls = <<>>
    /\ sortColumns = P.sortColumns

\* C19: the sort list never holds two entries with the same columnKey.
C19_AtMostOneEntryPerColumnKey ==
    sortColumns # Undefined =>
        \A i, j \in DOMAIN sortColumns[1] :
            sortColumns[1][i].columnKey = sortColumns[1][j].columnKey => i = j

\* A Ctrl/Cmd activation flipped the entry of a column in a full list.
C19_Witness ==
    /\ SortActivation /\ Multi /\ Sorted
    /\ Len(P.sortColumns[1]) = NumCols
    /\ ReportedLists # <<>>
    /\ sortColumns # P.sortColumns
    /\ Len(sortColumns[1]) = NumCols
    /\ Cardinality({sortColumns[1][i].columnKey : i \in DOMAIN sortColumns[1]})
         = NumCols

\* C20: after a click or key activation the array given as sortColumns has
\* the entries it had, in the same order; the next list is another sequence,
\* passed to onSortColumnsChange once.
C20_GivenListNotMutated ==
    /\ (~Idle /\ E.type \in {"click", "keydown"}) => given = P.sortColumns
    /\ (SortActivation /\ P.onSortColumnsChange) =>
            /\ Len(ReportedLists) = 1
            /\ sortColumns = Some(ReportedLists[1])

\* A Ctrl/Cmd activation removed a column from a list of several.
C20_Witness ==
    /\ SortActivation /\ Multi /\ Sorted /\ P.onSortColumnsChange
    /\ Len(P.sortColumns[1]) >= 2
    /\ Len(ReportedLists[1]) = Len(P.sortColumns[1]) - 1
    /\ given = P.sortColumns
    /\ sortColumns # given

====
